---- MODULE Spec2Model ----
(***************************************************************************)
(* Model of the deterministic decision-support core of the SRMA API:       *)
(*   services/screener.py     resolve_final_label                          *)
(*   services/dedup.py        find_duplicates (Jaro-Winkler, first match)  *)
(*   services/kappa.py        compute_kappa (Cohen's kappa)                *)
(*   services/grade_engine.py assess_outcome (GRADE certainty)             *)
(*   routers/screening.py     screen_batch                                 *)
(*   routers/fulltext_screen.py fulltext_screen                            *)
(*                                                                         *)
(* Four specifications share the variables:                                *)
(*   Spec       the two screening endpoints (dedup, raters, kappa, rows)   *)
(*   SpecDedup  find_duplicates applied to a batch of (id, title) pairs    *)
(*   SpecKappa  compute_kappa applied to two label sequences               *)
(*   SpecGrade  assess_outcome applied to one outcome's evidence           *)
(*                                                                         *)
(* Numbers: I2 is in percent points, CI bounds and p-values in hundredths, *)
(* kappa in ten-thousandths (the 4 decimals the code rounds to).           *)
(* Optional values are <<>> (None) or <<v>>.                               *)
(***************************************************************************)
EXTENDS Integers, Sequences, FiniteSets, TLC

VARIABLES
    pc,              \* position of the modelled call / request
    stage,           \* "ti_ab" (screen_batch) | "fulltext" (fulltext_screen) | "none"
    papers,          \* the fetched Paper rows, in the order the query returned them
    dup_map,         \* find_duplicates' result: paper id -> <<>> | <<original id>>
    dup_map_reversed, \* find_duplicates' result for the same records in reverse order
    outcome,         \* per position of the gathered list: <<>> (pending) | <<[o1, o2]>>
    rater_calls,     \* ids of the papers a rater call was issued for
    screen_results,  \* what asyncio.gather returned: <<[paper_id, a1, a2], ...>>
    decisions,       \* the ScreeningDecision rows added to the session
    screening_label, \* Paper.screening_label per paper id
    response,        \* the ScreenBatchResponse counters, <<>> before the return
    a1_labels,       \* compute_kappa's first argument
    a2_labels,       \* compute_kappa's second argument
    kappa,           \* compute_kappa's result: <<>> (None) | <<ten-thousandths>>
    evidence,        \* assess_outcome's arguments
    grade,           \* assess_outcome's GradeResult, <<>> before the call returns
    review_state,    \* the rows validate_prisma's queries return for the review
    prisma           \* validate_prisma's PrismaCheckResponse, <<>> before the return

vars == <<pc, stage, papers, dup_map, dup_map_reversed, outcome, rater_calls, screen_results,
          decisions, screening_label, response, a1_labels, a2_labels, kappa,
          evidence, grade, review_state, prisma>>

None == <<>>
Some(v) == <<v>>

Min(a, b) == IF a <= b THEN a ELSE b
Max(a, b) == IF a >= b THEN a ELSE b

(***************************************************************************)
(* services/grade_engine.py                                                *)
(***************************************************************************)
CERTAINTY_LABELS == [t \in 1..4 |->
    CASE t = 4 -> "high" [] t = 3 -> "moderate" [] t = 2 -> "low" [] t = 1 -> "very_low"]

\* number of filled symbols in CERTAINTY_SYMBOLS[t]; the remaining 4 - t are hollow
CERTAINTY_SYMBOLS == [t \in 1..4 |->
    CASE t = 4 -> <<"+", "+", "+", "+">>
      [] t = 3 -> <<"+", "+", "+", "-">>
      [] t = 2 -> <<"+", "+", "-", "-">>
      [] t = 1 -> <<"+", "-", "-", "-">>]

\* mutant: observational evidence started one tier higher
CertaintyStartGenerous(study_design) ==
    CASE study_design = "rct" -> 4
      [] study_design = "observational" -> 3
      [] OTHER -> 4

\* CERTAINTY_START.get(study_design, 4)
CertaintyStart(study_design) ==
    CASE study_design = "rct" -> 4
      [] study_design = "observational" -> 2
      [] OTHER -> 4

AssessRob(rob_summary) ==
    IF rob_summary = "low" THEN 0
    ELSE IF rob_summary = "some_concerns" THEN 1
    ELSE 2

\* mutant: I2 = 75 already counted as very serious
AssessInconsistencyFrom75(i2, prediction_interval_crosses_null) ==
    IF i2 >= 75 \/ (prediction_interval_crosses_null /\ i2 >= 50) THEN 2
    ELSE IF i2 >= 40 THEN 1
    ELSE 0

AssessInconsistency(i2, prediction_interval_crosses_null) ==
    IF i2 > 75 \/ (prediction_interval_crosses_null /\ i2 >= 50) THEN 2
    ELSE IF i2 >= 40 THEN 1
    ELSE 0

AssessIndirectness(directness) ==
    IF directness = "direct" THEN 0
    ELSE IF directness = "minor_concerns" THEN 1
    ELSE 2

\* null_val = 1.0 if measure in ("OR", "RR") else 0.0, in hundredths
NullVal(measure) == IF measure \in {"OR", "RR"} THEN 100 ELSE 0

CrossesNull(ci_lower, ci_upper, measure) ==
    ci_lower < NullVal(measure) /\ NullVal(measure) < ci_upper

\* mutant: a CI bound equal to the null counted as crossing
AssessImprecisionInclusive(ci_lower, ci_upper, measure, total_n) ==
    LET crosses == ci_lower <= NullVal(measure) /\ NullVal(measure) <= ci_upper
    IN  IF total_n < 200 /\ crosses THEN 2
        ELSE IF crosses \/ total_n < 400 THEN 1
        ELSE 0

AssessImprecision(ci_lower, ci_upper, measure, total_n) ==
    IF total_n < 200 /\ CrossesNull(ci_lower, ci_upper, measure) THEN 2
    ELSE IF CrossesNull(ci_lower, ci_upper, measure) \/ total_n < 400 THEN 1
    ELSE 0

\* mutant: the Egger comparison reversed
AssessPublicationBiasReversed(n_studies_for_funnel, egger_pval) ==
    IF n_studies_for_funnel < 10 THEN 0
    ELSE IF egger_pval # None /\ egger_pval[1] >= 10 THEN 1
    ELSE 0

\* mutant: the Egger test trusted with fewer than 10 studies
AssessPublicationBiasAnyN(n_studies_for_funnel, egger_pval) ==
    IF egger_pval # None /\ egger_pval[1] < 10 THEN 1
    ELSE 0

\* egger_pval is None or <<p>>, p in hundredths (0.10 is 10)
AssessPublicationBias(n_studies_for_funnel, egger_pval) ==
    IF n_studies_for_funnel < 10 THEN 0
    ELSE IF egger_pval # None /\ egger_pval[1] < 10 THEN 1
    ELSE 0

\* the reasons list of _compute_upgrades, before the design guard
UpgradeReasons(large_effect, dose_response, residual_confounding_direction) ==
    (IF large_effect THEN <<"large_effect">> ELSE <<>>)
    \o (IF dose_response THEN <<"dose_response">> ELSE <<>>)
    \o (IF residual_confounding_direction = Some("towards_null")
        THEN <<"residual_confounding">> ELSE <<>>)

\* mutant: one tier per qualifying factor, the min(1, ...) cap forgotten
ComputeUpgradesUncapped(study_design, large_effect, dose_response, residual_confounding_direction) ==
    IF study_design # "observational"
    THEN [up |-> 0, reasons |-> <<>>]
    ELSE LET reasons == UpgradeReasons(large_effect, dose_response,
                                       residual_confounding_direction)
         IN  [up |-> Len(reasons), reasons |-> reasons]

ComputeUpgrades(study_design, large_effect, dose_response, residual_confounding_direction) ==
    IF study_design # "observational"
    THEN [up |-> 0, reasons |-> <<>>]
    ELSE LET reasons == UpgradeReasons(large_effect, dose_response,
                                       residual_confounding_direction)
         IN  [up |-> Min(1, Len(reasons)), reasons |-> reasons]

\* mutant: the plain sum, the cap at 3 forgotten
TotalDownUncapped(rob, inconsistency, indirectness, imprecision, pub_bias) ==
    rob + inconsistency + indirectness + imprecision + pub_bias

TotalDown(rob, inconsistency, indirectness, imprecision, pub_bias) ==
    Min(3, rob + inconsistency + indirectness + imprecision + pub_bias)

\* mutant: the upgrade never added
FinalLevelNoUpgrade(starting_level, total_down, up) ==
    Max(1, Min(4, starting_level - total_down))

FinalLevel(starting_level, total_down, up) ==
    Max(1, Min(4, starting_level - total_down + up))

\* mutant: imprecision reported before indirectness
FootnotesSwapped(rob, inconsistency, indirectness, imprecision, pub_bias) ==
    (IF rob > 0 THEN <<"Risk of bias">> ELSE <<>>)
    \o (IF inconsistency > 0 THEN <<"Inconsistency">> ELSE <<>>)
    \o (IF imprecision > 0 THEN <<"Imprecision">> ELSE <<>>)
    \o (IF indirectness > 0 THEN <<"Indirectness">> ELSE <<>>)
    \o (IF pub_bias > 0 THEN <<"Publication bias">> ELSE <<>>)

Footnotes(rob, inconsistency, indirectness, imprecision, pub_bias) ==
    (IF rob > 0 THEN <<"Risk of bias">> ELSE <<>>)
    \o (IF inconsistency > 0 THEN <<"Inconsistency">> ELSE <<>>)
    \o (IF indirectness > 0 THEN <<"Indirectness">> ELSE <<>>)
    \o (IF imprecision > 0 THEN <<"Imprecision">> ELSE <<>>)
    \o (IF pub_bias > 0 THEN <<"Publication bias">> ELSE <<>>)

AssessOutcome(e) ==
    LET starting_level == CertaintyStart(e.study_design)
        rob == AssessRob(e.rob_summary)
        inconsistency == AssessInconsistency(e.i2, e.prediction_interval_crosses_null)
        indirectness == AssessIndirectness(e.directness)
        imprecision == AssessImprecision(e.ci_lower, e.ci_upper, e.measure, e.total_n)
        pub_bias == AssessPublicationBias(e.n_studies_for_funnel, e.egger_pval)
        total_down == TotalDown(rob, inconsistency, indirectness, imprecision, pub_bias)
        upg == ComputeUpgrades(e.study_design, e.large_effect, e.dose_response,
                               e.residual_confounding_direction)
        final_level == FinalLevel(starting_level, total_down, upg.up)
    IN  [starting_certainty |-> CERTAINTY_LABELS[starting_level],
         certainty |-> CERTAINTY_LABELS[final_level],
         downgrade_count |-> total_down,
         upgrade_count |-> upg.up,
         rob_decision |-> rob,
         inconsistency_decision |-> inconsistency,
         indirectness_decision |-> indirectness,
         imprecision_decision |-> imprecision,
         publication_bias_decision |-> pub_bias,
         upgrade_reasons |-> upg.reasons,
         footnotes |-> Footnotes(rob, inconsistency, indirectness, imprecision, pub_bias),
         grade_symbol |-> CERTAINTY_SYMBOLS[final_level]]

(***************************************************************************)
(* services/screener.py                                                    *)
(***************************************************************************)
VALID_LABELS == {"include", "exclude", "uncertain"}

\* mutant: a disagreement with one include resolved to include
ResolveFinalLabelLenient(label1, label2) ==
    IF label1 = label2 THEN label1
    ELSE IF "include" \in {label1, label2} THEN "include"
    ELSE "exclude"

ResolveFinalLabel(label1, label2) ==
    IF label1 = label2 THEN label1
    ELSE IF "include" \in {label1, label2} THEN "uncertain"
    ELSE "exclude"

(***************************************************************************)
(* services/dedup.py.  A title is None or <<chars>>, chars a sequence of     *)
(* one-character strings.  A similarity score is the exact ratio num / den. *)
(***************************************************************************)
\* THRESHOLD = 0.95, in hundredths
THRESHOLD == 95

Whitespace == {" "}

\* str.lower() on the characters the titles are written in
LowerChar(c) ==
    CASE c = "A" -> "a"
      [] c = "B" -> "b"
      [] c = "C" -> "c"
      [] c = "D" -> "d"
      [] OTHER -> c

RECURSIVE StripLeft(_)
StripLeft(s) ==
    IF s # <<>> /\ Head(s) \in Whitespace THEN StripLeft(Tail(s)) ELSE s

RECURSIVE StripRight(_)
StripRight(s) ==
    IF s # <<>> /\ s[Len(s)] \in Whitespace
    THEN StripRight(SubSeq(s, 1, Len(s) - 1))
    ELSE s

\* mutant: the surrounding whitespace is kept
NormaliseUnstripped(title) ==
    IF title = None THEN <<>>
    ELSE [i \in DOMAIN title[1] |-> LowerChar(title[1][i])]

\* _normalise: "" for a missing or empty title, else title.lower().strip()
Normalise(title) ==
    IF title = None THEN <<>>
    ELSE IF title[1] = <<>> THEN <<>>
    ELSE StripRight(StripLeft([i \in DOMAIN title[1] |-> LowerChar(title[1][i])]))

MinOfSet(S) == CHOOSE x \in S : \A y \in S : x <= y

\* Jaro's greedy matching: the positions of T matched by P[1..i], each P[k]
\* taking the first unmatched equal character of T within `bound` of k
RECURSIVE JaroMatchedT(_, _, _, _)
JaroMatchedT(P, T, bound, i) ==
    IF i = 0 THEN <<>>
    ELSE LET before == JaroMatchedT(P, T, bound, i - 1)
             taken == {before[k] : k \in DOMAIN before}
             cand == {j \in Max(1, i - bound)..Min(Len(T), i + bound) :
                        j \notin taken /\ T[j] = P[i]}
         IN  IF cand = {} THEN Append(before, 0)
             ELSE Append(before, MinOfSet(cand))

\* the elements of s at the positions in S, in increasing position order
RECURSIVE Pick(_, _)
Pick(s, S) ==
    IF S = {} THEN <<>>
    ELSE LET j == MinOfSet(S) IN <<s[j]>> \o Pick(s, S \ {j})

\* JaroWinkler.normalized_similarity(s1, s2) with the default prefix weight 0.1:
\* Jaro = (m/|P| + m/|T| + (m - t)/m) / 3, raised by 0.1 per common leading
\* character (4 at most) of the remaining distance when Jaro > 0.7
JaroWinkler(P, T) ==
    IF P = <<>> /\ T = <<>> THEN [num |-> 1, den |-> 1]
    ELSE IF P = <<>> \/ T = <<>> THEN [num |-> 0, den |-> 1]
    ELSE
    LET bound == Max(0, (Max(Len(P), Len(T)) \div 2) - 1)
        mt == JaroMatchedT(P, T, bound, Len(P))
        flagP == {i \in DOMAIN P : mt[i] # 0}
        flagT == {mt[i] : i \in flagP}
        m == Cardinality(flagP)
        mp == Pick(P, flagP)
        mq == Pick(T, flagT)
        t == Cardinality({k \in 1..m : mp[k] # mq[k]}) \div 2
        jn == m * m * Len(T) + m * m * Len(P) + (m - t) * Len(P) * Len(T)
        jd == 3 * Len(P) * Len(T) * m
        common == {k \in 0..Min(4, Min(Len(P), Len(T))) :
                     \A i \in 1..k : P[i] = T[i]}
        prefix == CHOOSE k \in common : \A k2 \in common : k2 <= k
    IN  IF m = 0 THEN [num |-> 0, den |-> 1]
        ELSE IF 10 * jn > 7 * jd
             THEN [num |-> (10 - prefix) * jn + prefix * jd, den |-> 10 * jd]
             ELSE [num |-> jn, den |-> jd]

\* score >= THRESHOLD
AtLeastThreshold(score) == 100 * score.num >= THRESHOLD * score.den

\* mutant: the best-scoring original wins instead of the first one
BestMatch(norm, originals) ==
    LET hits == {j \in DOMAIN originals :
                   AtLeastThreshold(JaroWinkler(norm, originals[j].norm))}
        better(j, k) ==
            LET a == JaroWinkler(norm, originals[j].norm)
                b == JaroWinkler(norm, originals[k].norm)
            IN  a.num * b.den > b.num * a.den \/ (a.num * b.den = b.num * a.den /\ j <= k)
    IN  IF hits = {} THEN None
        ELSE Some(originals[CHOOSE j \in hits : \A k \in hits : better(j, k)].id)

\* mutant: only the first kept original is compared
FirstMatchFirstOnly(norm, originals) ==
    IF originals = <<>> THEN None
    ELSE IF AtLeastThreshold(JaroWinkler(norm, originals[1].norm))
         THEN Some(originals[1].id)
         ELSE None

\* mutant: only the most recently kept original is compared
FirstMatchLatestOnly(norm, originals) ==
    IF originals = <<>> THEN None
    ELSE IF AtLeastThreshold(JaroWinkler(norm, originals[Len(originals)].norm))
         THEN Some(originals[Len(originals)].id)
         ELSE None

\* the inner loop: the first original, in insertion order, scoring >= THRESHOLD
FirstMatch(norm, originals) ==
    LET hits == {j \in DOMAIN originals :
                   AtLeastThreshold(JaroWinkler(norm, originals[j].norm))}
    IN  IF hits = {} THEN None
        ELSE Some(originals[MinOfSet(hits)].id)

\* mutant: every record is remembered for comparison, duplicates included
RECURSIVE FindDuplicatesFromKeepAll(_, _, _, _)
FindDuplicatesFromKeepAll(pairs, i, originals, result) ==
    IF i > Len(pairs) THEN result
    ELSE LET paper_id == pairs[i].id
             norm == Normalise(pairs[i].title)
             duplicate_of == IF norm # <<>> THEN FirstMatch(norm, originals) ELSE None
         IN  FindDuplicatesFromKeepAll(
                 pairs, i + 1,
                 Append(originals, [id |-> paper_id, norm |-> norm]),
                 (paper_id :> duplicate_of) @@ result)

\* the outer loop of find_duplicates from position i on
RECURSIVE FindDuplicatesFrom(_, _, _, _)
FindDuplicatesFrom(pairs, i, originals, result) ==
    IF i > Len(pairs) THEN result
    ELSE LET paper_id == pairs[i].id
             norm == Normalise(pairs[i].title)
             duplicate_of == IF norm # <<>> THEN FirstMatch(norm, originals) ELSE None
         IN  FindDuplicatesFrom(
                 pairs, i + 1,
                 IF duplicate_of = None
                 THEN Append(originals, [id |-> paper_id, norm |-> norm])
                 ELSE originals,
                 (paper_id :> duplicate_of) @@ result)

FindDuplicates(pairs) == FindDuplicatesFrom(pairs, 1, <<>>, <<>>)

(***************************************************************************)
(* services/kappa.py: compute_kappa, with sklearn's cohen_kappa_score      *)
(* computed as the library computes it (confusion matrix over the fixed    *)
(* label order, expected = outer product of the marginals / n, unweighted) *)
(***************************************************************************)
LABEL_ORDER == <<"include", "exclude", "uncertain">>

SeqSet(s) == {s[i] : i \in DOMAIN s}

RECURSIVE SumOver(_, _)
SumOver(f, S) ==
    IF S = {} THEN 0
    ELSE LET x == CHOOSE y \in S : TRUE IN f[x] + SumOver(f, S \ {x})

\* confusion_matrix(y1, y2, labels=LABEL_ORDER)[i][j]
Confusion(y1, y2) ==
    [i \in DOMAIN LABEL_ORDER |-> [j \in DOMAIN LABEL_ORDER |->
        Cardinality({k \in DOMAIN y1 :
                       y1[k] = LABEL_ORDER[i] /\ y2[k] = LABEL_ORDER[j]})]]

\* the value float(kappa) holds when numpy divided 0.0 by 0.0
NaN == <<"nan", "nan">>

\* mutant: the fifth decimal dropped instead of rounded
Round4Truncate(num, den) == (num * 10000) \div den

\* round(x, 4) of x = num / den (den > 0), in ten-thousandths, ties to even
Round4(num, den) ==
    LET q == (num * 10000) \div den
        r == (num * 10000) % den
    IN  IF 2 * r > den THEN q + 1
        ELSE IF 2 * r < den THEN q
        ELSE IF q % 2 = 0 THEN q ELSE q + 1

\* mutant: a negative statistic reported as 0
CohenKappaScoreClamped(y1, y2) ==
    LET n == Len(y1)
        agree == Cardinality({k \in DOMAIN y1 : y1[k] = y2[k]})
        chance == SumOver([i \in DOMAIN LABEL_ORDER |->
                      Cardinality({k \in DOMAIN y1 : y1[k] = LABEL_ORDER[i]})
                      * Cardinality({k \in DOMAIN y2 : y2[k] = LABEL_ORDER[i]})],
                      DOMAIN LABEL_ORDER)
    IN  IF n * n = chance THEN NaN
        ELSE Some(Max(0, Round4(n * agree - chance, n * n - chance)))

\* mutant: the agreement above chance left undivided by 1 - p_e
CohenKappaScoreUnscaled(y1, y2) ==
    LET n == Len(y1)
        agree == Cardinality({k \in DOMAIN y1 : y1[k] = y2[k]})
        chance == SumOver([i \in DOMAIN LABEL_ORDER |->
                      Cardinality({k \in DOMAIN y1 : y1[k] = LABEL_ORDER[i]})
                      * Cardinality({k \in DOMAIN y2 : y2[k] = LABEL_ORDER[i]})],
                      DOMAIN LABEL_ORDER)
    IN  IF n * n = chance THEN NaN
        ELSE Some(Round4(n * agree - chance, n * n))

\* cohen_kappa_score(y1, y2, labels=LABEL_ORDER), then round(float(kappa), 4):
\*   k = sum(w_mat * confusion) / sum(w_mat * expected); return 1 - k
\* with both sums multiplied by n to stay in the integers.
CohenKappaScore(y1, y2) ==
    LET confusion == Confusion(y1, y2)
        L == DOMAIN LABEL_ORDER
        sum0 == [j \in L |-> SumOver([i \in L |-> confusion[i][j]], L)]
        sum1 == [i \in L |-> SumOver([j \in L |-> confusion[i][j]], L)]
        n == SumOver(sum0, L)
        \* n * sum(w_mat * confusion): the off-diagonal counts
        disagree == n * SumOver([i \in L |->
                        SumOver([j \in L |-> IF i = j THEN 0 ELSE confusion[i][j]], L)], L)
        \* n * sum(w_mat * expected): the off-diagonal products of the marginals
        expected == SumOver([i \in L |->
                        SumOver([j \in L |-> IF i = j THEN 0 ELSE sum0[i] * sum1[j]], L)], L)
    IN  IF expected = 0 THEN NaN
        ELSE Some(Round4(expected - disagree, expected))

\* mutant: the sample-size guard off by one
ComputeKappaShortGuard(agent1_labels, agent2_labels) ==
    IF Len(agent1_labels) < 1 THEN None
    ELSE IF Cardinality(SeqSet(agent1_labels) \cup SeqSet(agent2_labels)) < 2 THEN None
    ELSE IF Len(agent1_labels) # Len(agent2_labels) THEN None
    ELSE CohenKappaScore(agent1_labels, agent2_labels)

\* compute_kappa; sklearn raises ValueError on sequences of different lengths
\* (check_consistent_length), which the except clause turns into None
ComputeKappa(agent1_labels, agent2_labels) ==
    IF Len(agent1_labels) < 2 THEN None
    ELSE IF Cardinality(SeqSet(agent1_labels) \cup SeqSet(agent2_labels)) < 2 THEN None
    ELSE IF Len(agent1_labels) # Len(agent2_labels) THEN None
    ELSE CohenKappaScore(agent1_labels, agent2_labels)

(***************************************************************************)
(* services/prisma_validator.py: validate_prisma.  review_state holds what *)
(* the queries return: review (<<>> | <<title>>), protocol (the latest     *)
(* ProtocolVersion: <<>> | <<pico_schema>>, pico_schema <<>> | <<keys>>),  *)
(* search (the latest SearchQuery: <<>> | <<[database, search_string]>>),  *)
(* screening_count, phases (the phase numbers among 5..9 that have a       *)
(* PhaseResult) and grade_count.                                           *)
(***************************************************************************)
\* the item numbers and domains of PRISMA_ITEMS, in list order
PRISMA_ITEMS ==
    << <<1, "Title">>, <<2, "Abstract">>,
       <<3, "Introduction: Rationale">>, <<4, "Introduction: Objectives">>,
       <<5, "Methods: Eligibility criteria">>, <<6, "Methods: Information sources">>,
       <<7, "Methods: Search strategy">>, <<8, "Methods: Selection process">>,
       <<9, "Methods: Data collection process">>, <<10, "Methods: Data items">>,
       <<11, "Methods: Study risk of bias assessment">>, <<12, "Methods: Effect measures">>,
       <<13, "Methods: Synthesis methods">>, <<14, "Methods: Reporting bias assessment">>,
       <<15, "Methods: Certainty assessment">>, <<16, "Results: Study selection">>,
       <<17, "Results: Study characteristics">>, <<18, "Results: Risk of bias in studies">>,
       <<19, "Results: Results of individual studies">>, <<20, "Results: Results of syntheses">>,
       <<21, "Results: Reporting biases">>, <<22, "Results: Certainty of evidence">>,
       <<23, "Discussion: Discussion of results">>, <<24, "Discussion: Limitations of evidence">>,
       <<25, "Discussion: Limitations of review process">>, <<26, "Discussion: Conclusions">>,
       <<27, "Other: Registration and protocol">> >>

PICO_KEYS == {"population", "intervention", "comparator", "outcomes", "study_designs"}

\* total_items=27 in the response
TOTAL_ITEMS == 27

\* bool(review and review.title and review.title.strip())
TitleOk(rs) ==
    /\ rs.review # None
    /\ rs.review[1] # <<>>
    /\ StripRight(StripLeft(rs.review[1])) # <<>>

\* protocol and protocol.pico_schema and all(k in pico for k in (...))
PicoOk(rs) ==
    /\ rs.protocol # None
    /\ rs.protocol[1] # None
    /\ rs.protocol[1][1] # {}
    /\ \A k \in PICO_KEYS : k \in rs.protocol[1][1]

\* bool(search and search.database)
DbOk(rs) ==
    /\ rs.search # None
    /\ rs.search[1].database # None
    /\ rs.search[1].database[1] # <<>>

\* bool(search and search.search_string)
SearchStringOk(rs) ==
    /\ rs.search # None
    /\ rs.search[1].search_string # None
    /\ rs.search[1].search_string[1] # <<>>

ScreeningOk(rs) == rs.screening_count > 0

Phase8Ok(rs) == 8 \in rs.phases

Phase9Ok(rs) == 9 \in rs.phases

GradeOk(rs) == rs.grade_count > 0

\* bool(protocol and search)
AbstractOk(rs) == rs.protocol # None /\ rs.search # None

SatisfiedIf(ok) == IF ok THEN "satisfied" ELSE "missing"

\* mutant: item 20 read from the publication-bias phase
ItemStatusShifted(item_num, rs) ==
    IF item_num = 1 THEN SatisfiedIf(TitleOk(rs))
    ELSE IF item_num = 2 THEN SatisfiedIf(AbstractOk(rs))
    ELSE IF item_num = 5 THEN SatisfiedIf(PicoOk(rs))
    ELSE IF item_num = 6 THEN SatisfiedIf(DbOk(rs))
    ELSE IF item_num = 7 THEN SatisfiedIf(SearchStringOk(rs))
    ELSE IF item_num = 13 THEN SatisfiedIf(ScreeningOk(rs))
    ELSE IF item_num \in {16, 17, 18, 19} THEN SatisfiedIf(Phase8Ok(rs))
    ELSE IF item_num \in {20, 21} THEN SatisfiedIf(Phase9Ok(rs))
    ELSE IF item_num = 22 THEN SatisfiedIf(GradeOk(rs))
    ELSE "partial"

\* the if / elif chain of the checklist loop
ItemStatus(item_num, rs) ==
    IF item_num = 1 THEN SatisfiedIf(TitleOk(rs))
    ELSE IF item_num = 2 THEN SatisfiedIf(AbstractOk(rs))
    ELSE IF item_num = 5 THEN SatisfiedIf(PicoOk(rs))
    ELSE IF item_num = 6 THEN SatisfiedIf(DbOk(rs))
    ELSE IF item_num = 7 THEN SatisfiedIf(SearchStringOk(rs))
    ELSE IF item_num = 13 THEN SatisfiedIf(ScreeningOk(rs))
    ELSE IF item_num \in {16, 17, 18, 19} THEN SatisfiedIf(Phase8Ok(rs))
    ELSE IF item_num = 20 THEN SatisfiedIf(Phase8Ok(rs))
    ELSE IF item_num = 21 THEN SatisfiedIf(Phase9Ok(rs))
    ELSE IF item_num = 22 THEN SatisfiedIf(GradeOk(rs))
    ELSE "partial"

\* mutant: the narrative items left out of the checklist
ChecklistMachineOnly(rs) ==
    SelectSeq([i \in DOMAIN PRISMA_ITEMS |->
                  [item_number |-> PRISMA_ITEMS[i][1],
                   domain |-> PRISMA_ITEMS[i][2],
                   status |-> ItemStatus(PRISMA_ITEMS[i][1], rs)]],
              LAMBDA item : item.status # "partial")

\* for item_num, domain, description in PRISMA_ITEMS: checklist.append(...)
Checklist(rs) ==
    [i \in DOMAIN PRISMA_ITEMS |->
        [item_number |-> PRISMA_ITEMS[i][1],
         domain |-> PRISMA_ITEMS[i][2],
         status |-> ItemStatus(PRISMA_ITEMS[i][1], rs)]]

\* sum(1 for i in checklist if i.status == status)
Tally(checklist, status) ==
    Cardinality({i \in DOMAIN checklist : checklist[i].status = status})

\* mutant: one missing item tolerated
IsCompliantLenient(missing) == missing <= 1

\* is_compliant=(missing == 0)
IsCompliant(missing) == missing = 0

ValidatePrisma(rs) ==
    LET checklist == Checklist(rs)
        missing == Tally(checklist, "missing")
    IN  [total_items |-> TOTAL_ITEMS,
         satisfied |-> Tally(checklist, "satisfied"),
         partial |-> Tally(checklist, "partial"),
         missing |-> missing,
         not_applicable |-> Tally(checklist, "not_applicable"),
         is_compliant |-> IsCompliant(missing),
         checklist |-> checklist]

(***************************************************************************)
(* routers/screening.py and routers/fulltext_screen.py                     *)
(***************************************************************************)
\* what one _call_agent produces: a parsed label, or an exception ("error")
RaterOutcomes == VALID_LABELS \cup {"error"}

\* screen_paper / screen_fulltext_paper: asyncio.gather of the two agent calls
\* raises when either call raises, and returns the two opinions otherwise
ScreenPaper(o1, o2) ==
    IF o1 = "error" \/ o2 = "error" THEN "error" ELSE <<o1, o2>>

\* mutant: a failed evaluation counted as two include votes
ScreenOneOptimistic(paper_id, o1, o2) ==
    IF ScreenPaper(o1, o2) = "error"
    THEN [paper_id |-> paper_id, a1 |-> "include", a2 |-> "include"]
    ELSE [paper_id |-> paper_id, a1 |-> o1, a2 |-> o2]

\* _screen_one: the opinions of screen_paper, or the synthetic pair
\* (uncertain, uncertain) when it raised
ScreenOne(paper_id, o1, o2) ==
    IF ScreenPaper(o1, o2) = "error"
    THEN [paper_id |-> paper_id, a1 |-> "uncertain", a2 |-> "uncertain"]
    ELSE [paper_id |-> paper_id, a1 |-> o1, a2 |-> o2]

\* mutant: the duplicates are not filtered out before screening
NonDupPapersUnfiltered(ps, dm) == ps

\* non_dup_papers = [p for p in papers if dup_map[p.id] is None]
NonDupPapers(ps, dm) ==
    LET kept(p) == dm[p.id] = None IN SelectSeq(ps, kept)

\* the papers handed to asyncio.gather, in order
Targets(st, ps, dm) == IF st = "ti_ab" THEN NonDupPapers(ps, dm) ELSE ps

\* screen_batch's first persist loop: one row per duplicate-flagged paper
DuplicateDecisions(ps, dm) ==
    LET flagged(p) == dm[p.id] # None
        dups == SelectSeq(ps, flagged)
    IN  [i \in DOMAIN dups |->
            [paper_id |-> dups[i].id,
             stage |-> "ti_ab",
             is_duplicate |-> TRUE,
             duplicate_of_paper_id |-> dm[dups[i].id],
             agent1_label |-> None,
             agent2_label |-> None,
             final_label |-> "exclude"]]

\* the persist loop over screen_results, in both endpoints
ScreenedDecisions(results, st) ==
    [i \in DOMAIN results |->
        [paper_id |-> results[i].paper_id,
         stage |-> st,
         is_duplicate |-> FALSE,
         duplicate_of_paper_id |-> None,
         agent1_label |-> Some(results[i].a1),
         agent2_label |-> Some(results[i].a2),
         final_label |-> ResolveFinalLabel(results[i].a1, results[i].a2)]]

\* Paper.screening_label after the persist loops: the final label of the
\* paper's row; papers without a row keep their label
LabelsAfter(old, rows) ==
    [id \in DOMAIN old |->
        IF \E i \in DOMAIN rows : rows[i].paper_id = id
        THEN Some(rows[CHOOSE i \in DOMAIN rows :
                         /\ rows[i].paper_id = id
                         /\ \A j \in DOMAIN rows : rows[j].paper_id = id => j <= i
                      ].final_label)
        ELSE old[id]]

CountLabel(rows, l) == Cardinality({i \in DOMAIN rows : rows[i].final_label = l})

\* mutant: the tallies taken over the screened rows only
ResponseScreenedOnly(n_screened, n_dups, rows, k) ==
    LET screened_rows == SelectSeq(rows, LAMBDA r : ~r.is_duplicate)
    IN  [screened |-> n_screened,
         duplicates_removed |-> n_dups,
         included |-> CountLabel(screened_rows, "include"),
         excluded |-> CountLabel(screened_rows, "exclude"),
         uncertain |-> CountLabel(screened_rows, "uncertain"),
         cohen_kappa |-> k,
         n_decisions |-> Len(rows)]

\* ScreenBatchResponse without the decisions list
Response(n_screened, n_dups, rows, k) ==
    [screened |-> n_screened,
     duplicates_removed |-> n_dups,
     included |-> CountLabel(rows, "include"),
     excluded |-> CountLabel(rows, "exclude"),
     uncertain |-> CountLabel(rows, "uncertain"),
     cohen_kappa |-> k,
     n_decisions |-> Len(rows)]

(***************************************************************************)
(* SpecGrade: assess_outcome applied to one outcome's evidence.            *)
(***************************************************************************)
StudyDesigns == {"rct", "observational", "cohort"}
RobSummaries == {"low", "some_concerns", "high"}
I2Values == {39, 40, 50, 75, 76}
Directnesses == {"direct", "minor_concerns", "major_concerns"}
Measures == {"OR", "RR", "MD", "SMD"}
CIValues == {-50, 50, 150}
TotalNs == {199, 200, 400}
FunnelNs == {9, 10}
EggerPvals == {None, Some(9), Some(10)}
ConfoundingDirections == {None, Some("towards_null"), Some("away_from_null")}

\* the keyword arguments of assess_outcome that the engine reads
OutcomeEvidence ==
    [study_design : StudyDesigns,
     total_n : TotalNs,
     rob_summary : RobSummaries,
     i2 : I2Values,
     prediction_interval_crosses_null : BOOLEAN,
     directness : Directnesses,
     ci_lower : CIValues,
     ci_upper : CIValues,
     measure : Measures,
     n_studies_for_funnel : FunnelNs,
     egger_pval : EggerPvals,
     large_effect : BOOLEAN,
     dose_response : BOOLEAN,
     residual_confounding_direction : ConfoundingDirections]

RankOf(category) ==
    CASE category \in {"low", "direct"} -> 0
      [] category \in {"some_concerns", "minor_concerns"} -> 1
      [] OTHER -> 2

\* every evidence that is e with exactly one downgrade input made worse
Worsened(e) ==
    {[e EXCEPT !.rob_summary = r] :
        r \in {x \in RobSummaries : RankOf(x) > RankOf(e.rob_summary)}}
    \cup {[e EXCEPT !.i2 = v] : v \in {x \in I2Values : x > e.i2}}
    \cup (IF e.prediction_interval_crosses_null THEN {}
          ELSE {[e EXCEPT !.prediction_interval_crosses_null = TRUE]})
    \cup {[e EXCEPT !.directness = d] :
            d \in {x \in Directnesses : RankOf(x) > RankOf(e.directness)}}
    \cup (IF CrossesNull(e.ci_lower, e.ci_upper, e.measure) THEN {}
          ELSE {[e EXCEPT !.ci_lower = ci[1], !.ci_upper = ci[2]] :
                  ci \in {x \in CIValues \X CIValues :
                            x[1] < x[2] /\ CrossesNull(x[1], x[2], e.measure)}})
    \cup {[e EXCEPT !.total_n = n] : n \in {x \in TotalNs : x < e.total_n}}
    \cup (IF e.egger_pval = None THEN {}
          ELSE {[e EXCEPT !.egger_pval = p] :
                  p \in {x \in EggerPvals \ {None} : x[1] < e.egger_pval[1]}})

ScreeningIdle ==
    /\ stage = "none"
    /\ papers = <<>>
    /\ dup_map = <<>>
    /\ dup_map_reversed = <<>>
    /\ outcome = <<>>
    /\ rater_calls = {}
    /\ screen_results = <<>>
    /\ decisions = <<>>
    /\ screening_label = <<>>
    /\ response = None

KappaIdle ==
    /\ a1_labels = <<>>
    /\ a2_labels = <<>>
    /\ kappa = None

GradeIdle ==
    /\ evidence = <<>>
    /\ grade = None

screeningVars == <<stage, papers, dup_map, dup_map_reversed, outcome, rater_calls, screen_results,
                   decisions, screening_label, response>>
kappaVars == <<a1_labels, a2_labels, kappa>>
gradeVars == <<evidence, grade>>
prismaVars == <<review_state, prisma>>

PrismaIdle ==
    /\ review_state = None
    /\ prisma = None

InitGrade ==
    /\ pc = "grade_input"
    /\ evidence \in OutcomeEvidence
    /\ evidence.ci_lower < evidence.ci_upper
    /\ grade = None
    /\ ScreeningIdle
    /\ KappaIdle
    /\ PrismaIdle

\* result = assess_outcome(**outcome.model_dump())
Assess ==
    /\ pc = "grade_input"
    /\ grade' = Some(AssessOutcome(evidence))
    /\ pc' = "graded"
    /\ UNCHANGED <<prismaVars, evidence, screeningVars, kappaVars>>

\* the same outcome re-assessed with one downgrade input worsened
AssessWorsened ==
    /\ pc = "graded"
    /\ \E e2 \in Worsened(evidence) :
         /\ evidence' = e2
         /\ grade' = Some(AssessOutcome(e2))
    /\ pc' = "graded"
    /\ UNCHANGED <<prismaVars, screeningVars, kappaVars>>

NextGrade == Assess \/ AssessWorsened

SpecGrade == InitGrade /\ [][NextGrade]_vars

(***************************************************************************)
(* Claims about assess_outcome (SpecGrade).                                *)
(***************************************************************************)
Graded == pc = "graded" /\ grade # None

TierOfLabel(label) ==
    CASE label = "high" -> 4
      [] label = "moderate" -> 3
      [] label = "low" -> 2
      [] label = "very_low" -> 1

Clamp14(x) == IF x < 1 THEN 1 ELSE IF x > 4 THEN 4 ELSE x

FilledSymbols(glyph) == Cardinality({i \in DOMAIN glyph : glyph[i] = "+"})

DomainPointSum(g) ==
    g.rob_decision + g.inconsistency_decision + g.indirectness_decision
    + g.imprecision_decision + g.publication_bias_decision

QualifyingFactors(e) ==
    (IF e.large_effect THEN 1 ELSE 0)
    + (IF e.dose_response THEN 1 ELSE 0)
    + (IF e.residual_confounding_direction = Some("towards_null") THEN 1 ELSE 0)

\* C5: the starting tier is 4 for rct, 2 for observational and 4 for any other
\* design; the final tier is start - downgrade_count + upgrade_count clamped to
\* 1..4, and the certainty label and the glyph (tier filled symbols out of 4)
\* are those of that tier.
C5_FinalTierClamped ==
    Graded =>
        LET g == grade[1]
            start == IF evidence.study_design = "observational" THEN 2 ELSE 4
            tier == Clamp14(start - g.downgrade_count + g.upgrade_count)
        IN  /\ TierOfLabel(g.starting_certainty) = start
            /\ tier \in 1..4
            /\ TierOfLabel(g.certainty) = tier
            /\ Len(g.grade_symbol) = 4
            /\ FilledSymbols(g.grade_symbol) = tier

\* an observational outcome downgraded below the floor: 2 - 3 + 1 = 0 ends at tier 1
C5_Witness ==
    /\ Graded
    /\ evidence.study_design = "observational"
    /\ grade[1].downgrade_count = 3
    /\ grade[1].upgrade_count = 1
    /\ grade[1].certainty = "very_low"

\* C6: the reported downgrade_count is min(3, sum of the five domain points).
C6_DowngradeCapped ==
    Graded =>
        LET g == grade[1]
            sum == DomainPointSum(g)
        IN  /\ g.downgrade_count <= 3
            /\ sum <= 3 => g.downgrade_count = sum
            /\ sum > 3 => g.downgrade_count = 3

C6_Witness ==
    /\ Graded
    /\ DomainPointSum(grade[1]) = 9
    /\ grade[1].downgrade_count = 3

\* C7: upgrade_count is min(1, number of qualifying factors) for observational
\* evidence, and 0 with no upgrade reasons for rct evidence whatever the flags.
C7_UpgradeCappedObservationalOnly ==
    Graded =>
        LET g == grade[1]
            n == QualifyingFactors(evidence)
        IN  /\ evidence.study_design = "observational" =>
                 g.upgrade_count = (IF n >= 1 THEN 1 ELSE 0)
            /\ evidence.study_design = "rct" =>
                 g.upgrade_count = 0 /\ g.upgrade_reasons = <<>>

C7_Witness ==
    /\ Graded
    /\ evidence.study_design = "observational"
    /\ QualifyingFactors(evidence) = 3
    /\ grade[1].upgrade_count = 1

\* C8: re-assessing an outcome with one downgrade input worsened and all other
\* inputs unchanged never raises the final tier.
C8_WorseningNeverRaisesTier ==
    [][(Graded /\ pc' = "graded") =>
         TierOfLabel(grade'[1].certainty) <= TierOfLabel(grade[1].certainty)]_vars

\* an assessed outcome for which some single worsening strictly lowers the tier
\* and another one leaves it unchanged
C8_Witness ==
    /\ Graded
    /\ \E e2 \in Worsened(evidence) :
         TierOfLabel(AssessOutcome(e2).certainty) < TierOfLabel(grade[1].certainty)
    /\ \E e2 \in Worsened(evidence) :
         TierOfLabel(AssessOutcome(e2).certainty) = TierOfLabel(grade[1].certainty)

\* the domain names of the footnotes that the points call for, in report order
ExpectedFootnotes(g) ==
    LET names == <<"Risk of bias", "Inconsistency", "Indirectness", "Imprecision",
                   "Publication bias">>
        points == <<g.rob_decision, g.inconsistency_decision, g.indirectness_decision,
                    g.imprecision_decision, g.publication_bias_decision>>
        RECURSIVE From(_)
        From(k) == IF k > 5 THEN <<>>
                   ELSE (IF points[k] > 0 THEN <<names[k]>> ELSE <<>>) \o From(k + 1)
    IN  From(1)

\* C23: the footnotes have exactly one entry for each domain with downgrade
\* points > 0 and none for a domain with 0 points, in the order risk of bias,
\* inconsistency, indirectness, imprecision, publication bias; the list is
\* empty exactly when all five domains score 0.
C23_FootnotesPerDowngradedDomain ==
    Graded =>
        /\ grade[1].footnotes = ExpectedFootnotes(grade[1])
        /\ grade[1].footnotes = <<>> <=> DomainPointSum(grade[1]) = 0

\* indirectness and imprecision both downgraded, the other domains clean
C23_Witness ==
    /\ Graded
    /\ grade[1].indirectness_decision = 2
    /\ grade[1].imprecision_decision = 1
    /\ grade[1].footnotes = <<"Indirectness", "Imprecision">>

\* C28: certainty is high, with 4 filled symbols, for every rct input whose
\* five domains all score 0, and for no observational input: observational
\* evidence ends at moderate at best, whatever upgrade factors are set.
C28_HighOnlyForCleanRct ==
    Graded =>
        /\ (evidence.study_design = "rct" /\ DomainPointSum(grade[1]) = 0) =>
              /\ grade[1].certainty = "high"
              /\ FilledSymbols(grade[1].grade_symbol) = 4
        /\ evidence.study_design = "observational" =>
              /\ grade[1].certainty # "high"
              /\ TierOfLabel(grade[1].certainty) <= 3
              /\ FilledSymbols(grade[1].grade_symbol) <= 3

\* clean observational evidence with all three upgrade factors: moderate
C28_Witness ==
    /\ Graded
    /\ evidence.study_design = "observational"
    /\ DomainPointSum(grade[1]) = 0
    /\ QualifyingFactors(evidence) = 3
    /\ grade[1].certainty = "moderate"

(***************************************************************************)
(* SpecGradeBoundary: assess_outcome on evidence at the thresholds of the  *)
(* numeric domains (I2, CI bounds against the null, total N, funnel size,  *)
(* Egger p-value), with a design and a measure outside the enumerations.   *)
(***************************************************************************)
BoundaryI2Values == {0, 39, 40, 49, 50, 51, 75, 76}
BoundaryMeasures == Measures \cup {"HR"}
BoundaryCIValues == {-50, 0, 50, 100, 150}
BoundaryTotalNs == {199, 200, 399, 400}
BoundaryFunnelNs == {0, 9, 10, 11}
BoundaryEggerPvals == {None, Some(0), Some(9), Some(10), Some(11)}

BoundaryEvidence ==
    [study_design : StudyDesigns,
     total_n : BoundaryTotalNs,
     rob_summary : {"low"},
     i2 : BoundaryI2Values,
     prediction_interval_crosses_null : BOOLEAN,
     directness : {"direct"},
     ci_lower : BoundaryCIValues,
     ci_upper : BoundaryCIValues,
     measure : BoundaryMeasures,
     n_studies_for_funnel : BoundaryFunnelNs,
     egger_pval : BoundaryEggerPvals,
     large_effect : {FALSE},
     dose_response : {FALSE},
     residual_confounding_direction : {None}]

InitGradeBoundary ==
    /\ pc = "grade_input"
    /\ evidence \in BoundaryEvidence
    /\ evidence.ci_lower < evidence.ci_upper
    /\ grade = None
    /\ ScreeningIdle
    /\ KappaIdle
    /\ PrismaIdle

NextGradeBoundary == Assess

SpecGradeBoundary == InitGradeBoundary /\ [][NextGradeBoundary]_vars

(***************************************************************************)
(* Claims about the domains of assess_outcome (SpecGradeBoundary).         *)
(***************************************************************************)
\* C22: assess_outcome called with a study_design or measure outside the
\* recognised enumerations (rct, observational; OR, RR, MD, SMD) rejects the
\* call instead of returning a certainty result, so every call that returns
\* had recognised values.
C22_UnknownEnumRejected ==
    Graded =>
        /\ evidence.study_design \in {"rct", "observational"}
        /\ evidence.measure \in {"OR", "RR", "MD", "SMD"}

\* the CI strictly contains the null of the measure
StrictlyContainsNull(e) ==
    \/ e.measure \in {"OR", "RR"} /\ e.ci_lower < 100 /\ 100 < e.ci_upper
    \/ e.measure \in {"MD", "SMD"} /\ e.ci_lower < 0 /\ 0 < e.ci_upper

\* C25: for the measures OR, RR, MD and SMD the imprecision points are 2 iff
\* total_n < 200 and the CI strictly contains the null (1 for OR/RR, 0 for
\* MD/SMD); otherwise 1 iff the CI strictly contains the null or total_n <
\* 400, a single point even when both hold; otherwise 0.  A CI bound equal to
\* the null does not count as crossing.
C25_ImprecisionPoints ==
    (Graded /\ evidence.measure \in Measures) =>
        LET points == grade[1].imprecision_decision
            crosses == StrictlyContainsNull(evidence)
        IN  /\ points = 2 <=> (evidence.total_n < 200 /\ crosses)
            /\ points = 1 <=> (/\ ~(evidence.total_n < 200 /\ crosses)
                               /\ (crosses \/ evidence.total_n < 400))
            /\ points = 0 <=> (~crosses /\ evidence.total_n >= 400)
            /\ (evidence.total_n >= 400
                  /\ (evidence.ci_lower = NullVal(evidence.measure)
                        \/ evidence.ci_upper = NullVal(evidence.measure)))
                 => points = 0

\* a ratio measure whose CI starts exactly at 1, with a large sample: 0 points
C25_Witness ==
    /\ Graded
    /\ evidence.measure = "RR"
    /\ evidence.ci_lower = 100
    /\ evidence.total_n = 400
    /\ grade[1].imprecision_decision = 0

\* C26: the inconsistency points are 2 iff I2 > 75 or (the prediction interval
\* crosses the null and I2 >= 50); otherwise 1 iff I2 >= 40; otherwise 0.  So
\* I2 = 75 without a crossing prediction interval gives 1, I2 = 50 with one
\* gives 2, and the flag changes nothing when I2 < 50.
C26_InconsistencyPoints ==
    Graded =>
        LET points == grade[1].inconsistency_decision
            i2 == evidence.i2
            pi == evidence.prediction_interval_crosses_null
            two == i2 > 75 \/ (pi /\ i2 >= 50)
        IN  /\ points = 2 <=> two
            /\ points = 1 <=> (~two /\ i2 >= 40)
            /\ points = 0 <=> (~two /\ i2 < 40)
            /\ (i2 = 75 /\ ~pi) => points = 1
            /\ (i2 = 50 /\ pi) => points = 2
            /\ i2 < 50 => points = (IF i2 >= 40 THEN 1 ELSE 0)

\* I2 exactly 75 without a crossing prediction interval: 1 point
C26_Witness ==
    /\ Graded
    /\ evidence.i2 = 75
    /\ ~evidence.prediction_interval_crosses_null
    /\ grade[1].inconsistency_decision = 1

\* C27: the publication-bias points are 0 whenever fewer than 10 studies
\* contributed to the funnel analysis, whatever the Egger p-value; with 10 or
\* more they are 1 iff an Egger p-value is available and < 0.10, and 0
\* otherwise; the domain never scores 2.
C27_PublicationBiasPoints ==
    Graded =>
        LET points == grade[1].publication_bias_decision
            p == evidence.egger_pval
        IN  /\ points \in {0, 1}
            /\ evidence.n_studies_for_funnel < 10 => points = 0
            /\ evidence.n_studies_for_funnel >= 10 =>
                  (points = 1 <=> (p # None /\ p[1] < 10))

\* 9 studies and an Egger p-value of 0: not assessable, 0 points
C27_Witness ==
    /\ Graded
    /\ evidence.n_studies_for_funnel = 9
    /\ evidence.egger_pval = Some(0)
    /\ grade[1].publication_bias_decision = 0

(***************************************************************************)
(* SpecKappa: compute_kappa applied to two label sequences.                *)
(***************************************************************************)
MaxLabels == 4

SeqsUpTo(S, n) == UNION {[1..k -> S] : k \in 0..n}

\* Batches of a few hundred records, given by the number of records in each
\* cell of the include/exclude agreement table: <<both include, include then
\* exclude, exclude then include, both exclude>>.
LargeBatchCounts == {69, 70, 71} \X {28, 29, 30} \X {168, 169, 170} \X {69, 70, 71}

\* the label lists of the two agents for a batch with the given cell counts
Agent1Labels(c) ==
    [k \in 1..(c[1] + c[2] + c[3] + c[4]) |->
        IF k <= c[1] + c[2] THEN "include" ELSE "exclude"]

Agent2Labels(c) ==
    [k \in 1..(c[1] + c[2] + c[3] + c[4]) |->
        IF k <= c[1] THEN "include"
        ELSE IF k <= c[1] + c[2] THEN "exclude"
        ELSE IF k <= c[1] + c[2] + c[3] THEN "include"
        ELSE "exclude"]

InitKappa ==
    /\ pc = "kappa_input"
    /\ \/ /\ a1_labels \in SeqsUpTo(VALID_LABELS, MaxLabels)
          /\ a2_labels \in SeqsUpTo(VALID_LABELS, MaxLabels)
       \/ \E c \in LargeBatchCounts :
             /\ a1_labels = Agent1Labels(c)
             /\ a2_labels = Agent2Labels(c)
    /\ kappa = None
    /\ ScreeningIdle
    /\ GradeIdle
    /\ PrismaIdle

\* kappa = kappa_svc.compute_kappa(a1_labels, a2_labels)
CallComputeKappa ==
    /\ pc = "kappa_input"
    /\ kappa' = ComputeKappa(a1_labels, a2_labels)
    /\ pc' = "kappa_done"
    /\ UNCHANGED <<prismaVars, a1_labels, a2_labels, screeningVars, gradeVars>>

NextKappa == CallComputeKappa

SpecKappa == InitKappa /\ [][NextKappa]_vars

(***************************************************************************)
(* Claims about compute_kappa (SpecKappa).                                 *)
(***************************************************************************)
KappaDone == pc = "kappa_done"

SameLength == Len(a1_labels) = Len(a2_labels)

\* positions at which the two sequences agree
Agreements == Cardinality({k \in DOMAIN a1_labels : a1_labels[k] = a2_labels[k]})

Occurrences(s, l) == Cardinality({k \in DOMAIN s : s[k] = l})

\* n^2 * p_e: the sum over the three labels of the products of their counts
ChanceProducts ==
    Occurrences(a1_labels, "include") * Occurrences(a2_labels, "include")
    + Occurrences(a1_labels, "exclude") * Occurrences(a2_labels, "exclude")
    + Occurrences(a1_labels, "uncertain") * Occurrences(a2_labels, "uncertain")

\* C9: for same-length sequences compute_kappa returns None exactly when there
\* are fewer than 2 paired observations or fewer than 2 distinct labels across
\* both sequences; otherwise it returns a number.
C9_NoneExactlyWhenUndefined ==
    (KappaDone /\ SameLength) =>
        LET undefined == \/ Len(a1_labels) < 2
                         \/ Cardinality(SeqSet(a1_labels) \cup SeqSet(a2_labels)) < 2
        IN  /\ undefined <=> kappa = None
            /\ ~undefined => (kappa # NaN /\ Len(kappa) = 1)

\* one observation with two distinct labels: None because of the sample size alone
C9_Witness ==
    /\ KappaDone
    /\ Len(a1_labels) = 1 /\ Len(a2_labels) = 1
    /\ a1_labels[1] # a2_labels[1]
    /\ kappa = None

\* C10: a defined kappa is (p_o - p_e) / (1 - p_e) rounded to 4 decimals, with
\* p_o = agreements / n and p_e = ChanceProducts / n^2, and p_e < 1 for every
\* input that passes the two None guards.  In integers:
\* (p_o - p_e) / (1 - p_e) = (n * agreements - ChanceProducts) / (n^2 - ChanceProducts)
\* and k is that ratio rounded iff |10000 * num - k * den| * 2 <= den.
C10_KappaFormula ==
    (KappaDone /\ SameLength /\ Len(a1_labels) >= 2
       /\ Cardinality(SeqSet(a1_labels) \cup SeqSet(a2_labels)) >= 2) =>
        LET n == Len(a1_labels)
            num == n * Agreements - ChanceProducts
            den == n * n - ChanceProducts
            err == 10000 * num - kappa[1] * den
        IN  /\ ChanceProducts < n * n
            /\ Len(kappa) = 1
            /\ 2 * err <= den /\ 2 * (0 - err) <= den

\* a defined kappa that is not a whole number of hundredths: 3 observations,
\* kappa = 1/3 reported as 0.3333
C10_Witness ==
    /\ KappaDone /\ SameLength
    /\ kappa = Some(3333)

\* a number was returned for two same-length sequences
KappaDefined == KappaDone /\ SameLength /\ kappa # None /\ kappa # NaN

\* observed agreement below chance agreement: p_o < p_e, i.e.
\* agreements / n < ChanceProducts / n^2
BelowChance == Len(a1_labels) * Agreements < ChanceProducts

\* the exact kappa is below -0.00005, the largest negative value that the
\* rounding to 4 decimals can turn into 0
BelowHalfUnit ==
    20000 * (ChanceProducts - Len(a1_labels) * Agreements)
        > Len(a1_labels) * Len(a1_labels) - ChanceProducts

\* C11 (as stated): every non-None result of compute_kappa lies in [-1, 1] and
\* is strictly negative whenever the observed agreement is below the chance
\* agreement.
C11_StrictlyNegativeBelowChance ==
    KappaDefined =>
        /\ kappa[1] >= -10000 /\ kappa[1] <= 10000
        /\ BelowChance => kappa[1] < 0

\* C11 (amended): every non-None result of compute_kappa lies in [-1, 1]; when
\* the observed agreement is below the chance agreement the result is never
\* positive, it is strictly negative whenever the exact kappa is below
\* -0.00005 (no clamping: only the rounding to 4 decimals can give 0), and a
\* two-element binary sequence against its inversion gives -1.
C11_NegativeUpToRounding ==
    KappaDefined =>
        /\ kappa[1] >= -10000 /\ kappa[1] <= 10000
        /\ BelowChance => kappa[1] <= 0
        /\ (BelowChance /\ BelowHalfUnit) => kappa[1] < 0
        /\ (Len(a1_labels) = 2 /\ a1_labels[1] # a1_labels[2]
              /\ a2_labels = <<a1_labels[2], a1_labels[1]>>) => kappa[1] = -10000

\* a batch of 338 records whose agreement is below chance by less than
\* 0.00005 is reported as 0
C11_Witness ==
    /\ KappaDefined
    /\ BelowChance
    /\ kappa = Some(0)

\* C12: for every label sequence s with at least 2 elements and at least 2
\* distinct labels, compute_kappa(s, s) = 1.0.
C12_SelfAgreementIsOne ==
    (KappaDone /\ a1_labels = a2_labels /\ Len(a1_labels) >= 2
       /\ Cardinality(SeqSet(a1_labels)) >= 2) => kappa = Some(10000)

\* a sequence using all three labels compared with itself
C12_Witness ==
    /\ KappaDone
    /\ a1_labels = a2_labels
    /\ Cardinality(SeqSet(a1_labels)) = 3
    /\ kappa = Some(10000)

\* C21: compute_kappa called with two label sequences of different lengths
\* rejects the call: it does not return a number or None, so no call with
\* such arguments ever returns.
C21_MismatchedLengthsRejected ==
    KappaDone => SameLength

(***************************************************************************)
(* SpecPrisma: validate_prisma applied to the stored state of a review.    *)
(***************************************************************************)
\* Review.title: no Review row, or a row with an empty, blank or real title
ReviewRows == {None, Some(<<>>), Some(<<" ">>), Some(<<"T">>), Some(<<" ", "T", " ">>)}

\* ProtocolVersion.pico_schema of the latest version: no row, a row without
\* a schema, or a schema with any of the required keys and a further one
ProtocolRows ==
    {None, Some(None)} \cup {Some(Some(ks)) : ks \in SUBSET (PICO_KEYS \cup {"timeframe"})}

\* SearchQuery.database and search_string of the latest query
SearchRows ==
    {None} \cup {Some([database |-> d, search_string |-> q]) :
                    d \in {None, Some(<<>>), Some(<<"p">>)},
                    q \in {None, Some(<<>>), Some(<<"q">>)}}

MaxRows == 2

\* phase 7 stands for the stored phases that validate_prisma does not look at
ReviewStates ==
    [review : ReviewRows,
     protocol : ProtocolRows,
     search : SearchRows,
     screening_count : 0..MaxRows,
     phases : SUBSET {7, 8, 9},
     grade_count : 0..MaxRows]

InitPrisma ==
    /\ pc = "prisma_input"
    /\ review_state \in ReviewStates
    /\ prisma = None
    /\ ScreeningIdle
    /\ KappaIdle
    /\ GradeIdle

\* result = await validate_prisma(db=db, review_id=body.review_id)
CheckPrisma ==
    /\ pc = "prisma_input"
    /\ prisma' = Some(ValidatePrisma(review_state))
    /\ pc' = "prisma_done"
    /\ UNCHANGED <<review_state, screeningVars, kappaVars, gradeVars>>

NextPrisma == CheckPrisma

SpecPrisma == InitPrisma /\ [][NextPrisma]_vars

(***************************************************************************)
(* Claims about validate_prisma (SpecPrisma).                              *)
(***************************************************************************)
PrismaDone == pc = "prisma_done"

StatusOf(n) == prisma[1].checklist[n].status

\* C13: for every review state, validate_prisma returns exactly 27 checklist
\* items whose item_number values are 1, 2, ..., 27 in that order, and
\* satisfied + partial + missing + not_applicable = 27.
C13_TwentySevenItemsInOrder ==
    PrismaDone =>
        /\ Len(prisma[1].checklist) = 27
        /\ \A n \in 1..27 : prisma[1].checklist[n].item_number = n
        /\ prisma[1].satisfied + prisma[1].partial + prisma[1].missing
             + prisma[1].not_applicable = 27
        /\ prisma[1].total_items = 27

\* a review with some machine-checked items satisfied and some missing
C13_Witness ==
    /\ PrismaDone
    /\ prisma[1].satisfied > 0
    /\ prisma[1].missing > 0
    /\ prisma[1].checklist[27].item_number = 27

\* the conditions of the lookup table, read from the stored rows
HasProtocol == review_state.protocol # None
HasSearch == review_state.search # None
TitleNonEmpty == review_state.review # None /\ review_state.review[1] # <<>>
TitleNonBlank ==
    /\ review_state.review # None
    /\ \E i \in DOMAIN review_state.review[1] : review_state.review[1][i] # " "
PicoHasAllKeys ==
    /\ HasProtocol
    /\ review_state.protocol[1] # None
    /\ PICO_KEYS \subseteq review_state.protocol[1][1]
DatabaseRecorded ==
    /\ HasSearch
    /\ review_state.search[1].database \notin {None, Some(<<>>)}
SearchStringRecorded ==
    /\ HasSearch
    /\ review_state.search[1].search_string \notin {None, Some(<<>>)}

\* the table's rows other than item 1: item numbers and the condition of each
TableBelowTitle ==
    /\ StatusOf(2) = "satisfied" <=> (HasProtocol /\ HasSearch)
    /\ StatusOf(5) = "satisfied" <=> PicoHasAllKeys
    /\ StatusOf(6) = "satisfied" <=> DatabaseRecorded
    /\ StatusOf(7) = "satisfied" <=> SearchStringRecorded
    /\ StatusOf(13) = "satisfied" <=> review_state.screening_count >= 1
    /\ \A n \in 16..20 : StatusOf(n) = "satisfied" <=> 8 \in review_state.phases
    /\ StatusOf(21) = "satisfied" <=> 9 \in review_state.phases
    /\ StatusOf(22) = "satisfied" <=> review_state.grade_count >= 1
    /\ \A n \in {1, 2, 5, 6, 7, 13} \cup (16..22) : StatusOf(n) \in {"satisfied", "missing"}
    /\ \A n \in {3, 4} \cup (8..12) \cup {14, 15} \cup (23..27) : StatusOf(n) = "partial"
    /\ prisma[1].partial = 14
    /\ prisma[1].not_applicable = 0

C15_CompliantIffNothingMissing ==
    PrismaDone =>
        /\ prisma[1].is_compliant <=> prisma[1].missing = 0
        /\ prisma[1].missing = 0 =>
              /\ TitleNonEmpty /\ HasProtocol /\ HasSearch /\ PicoHasAllKeys
              /\ DatabaseRecorded /\ SearchStringRecorded
              /\ review_state.screening_count >= 1
              /\ {8, 9} \subseteq review_state.phases
              /\ review_state.grade_count >= 1
        /\ (/\ ~HasProtocol /\ ~HasSearch
            /\ review_state.screening_count = 0
            /\ review_state.phases = {}
            /\ review_state.grade_count = 0)
              => (prisma[1].missing > 0 /\ ~prisma[1].is_compliant)

\* a review with every condition met is compliant
C15_Witness ==
    /\ PrismaDone
    /\ prisma[1].is_compliant
    /\ prisma[1].missing = 0
    /\ prisma[1].satisfied = 13

(***************************************************************************)
(* SpecDedup: find_duplicates applied to a batch of (id, title) pairs.     *)
(***************************************************************************)
MaxBatch == 4

\* paper ids are opaque and distinct; the i-th record of a batch carries the
\* i-th id of this list, so that ids are not in the order of the positions
PaperIdPool == <<"u3", "u1", "u4", "u2", "u5", "u0">>

TitlePool ==
    {None,
     Some(<<>>),
     Some(<<" ">>),
     Some(<<"a", "b", "c", "d">>),
     Some(<<"A", "B", "C", "D", " ">>),
     Some(<<"a", "b", "c", "d", "e">>),
     Some(<<"a", "b", "c", "d", "e", "f">>),
     Some(<<"x", "y", "z">>)}

InitDedup ==
    /\ pc = "dedup_input"
    /\ stage = "none"
    /\ \E k \in 0..MaxBatch : \E ts \in [1..k -> TitlePool] :
         papers = [i \in 1..k |-> [id |-> PaperIdPool[i], title |-> ts[i]]]
    /\ dup_map = <<>>
    /\ dup_map_reversed = <<>>
    /\ outcome = <<>>
    /\ rater_calls = {}
    /\ screen_results = <<>>
    /\ decisions = <<>>
    /\ screening_label = <<>>
    /\ response = None
    /\ KappaIdle
    /\ GradeIdle
    /\ PrismaIdle

\* dup_map = find_duplicates([(p.id, p.title) for p in papers])
CallFindDuplicates ==
    /\ pc = "dedup_input"
    /\ dup_map' = FindDuplicates(papers)
    /\ pc' = "dedup_done"
    /\ UNCHANGED <<prismaVars, dup_map_reversed, stage, papers, outcome, rater_calls, screen_results, decisions,
                   screening_label, response, kappaVars, gradeVars>>

\* the same records in reverse order
Reverse(s) == [i \in DOMAIN s |-> s[Len(s) + 1 - i]]

\* a second call, on the reversed batch
CallFindDuplicatesReversed ==
    /\ pc = "dedup_done"
    /\ dup_map_reversed' = FindDuplicates(Reverse(papers))
    /\ pc' = "dedup_reversed_done"
    /\ UNCHANGED <<prismaVars, stage, papers, dup_map, outcome, rater_calls, screen_results,
                   decisions, screening_label, response, kappaVars, gradeVars>>

NextDedup == CallFindDuplicates \/ CallFindDuplicatesReversed

SpecDedup == InitDedup /\ [][NextDedup]_vars

(***************************************************************************)
(* Claims about find_duplicates (SpecDedup).                               *)
(***************************************************************************)
DedupDone == pc \in {"dedup_done", "dedup_reversed_done"}

NormAt(i) == Normalise(papers[i].title)

\* the earlier records kept as originals whose similarity to record i reaches 0.95
EarlierOriginalHits(i) ==
    {j \in 1..(i - 1) :
        /\ dup_map[papers[j].id] = None
        /\ 100 * JaroWinkler(NormAt(i), NormAt(j)).num
             >= 95 * JaroWinkler(NormAt(i), NormAt(j)).den}

ScoresHigher(i, j, k) ==
    LET a == JaroWinkler(NormAt(i), NormAt(j))
        b == JaroWinkler(NormAt(i), NormAt(k))
    IN  a.num * b.den > b.num * a.den

\* C4: every record with a non-empty normalised title maps to the id of the
\* first kept original (in input order) whose similarity to it is >= 0.95,
\* whatever later originals score, and to None, becoming an original itself,
\* when no kept original reaches the threshold.
C4_FirstMatchWins ==
    DedupDone =>
        /\ DOMAIN dup_map = {papers[i].id : i \in DOMAIN papers}
        /\ \A i \in DOMAIN papers :
             NormAt(i) # <<>> =>
                IF EarlierOriginalHits(i) = {}
                THEN dup_map[papers[i].id] = None
                ELSE dup_map[papers[i].id]
                       = Some(papers[MinOfSet(EarlierOriginalHits(i))].id)

\* a record mapped to the first original reaching the threshold although a
\* later original scores strictly higher
C4_Witness ==
    /\ DedupDone
    /\ \E i \in DOMAIN papers : \E j, k \in EarlierOriginalHits(i) :
         /\ j < k
         /\ ScoresHigher(i, k, j)
         /\ dup_map[papers[i].id] = Some(papers[j].id)

BothRunsDone == pc = "dedup_reversed_done"

NumFlagged(dm) == Cardinality({id \in DOMAIN dm : dm[id] # None})

\* the similarity relation of the batch: titles i and j score >= 0.95
Similar(i, j) == AtLeastThreshold(JaroWinkler(NormAt(i), NormAt(j)))

SimilaritySymmetric ==
    \A i, j \in DOMAIN papers : Similar(i, j) <=> Similar(j, i)

\* over the records with a non-empty normalised title
SimilarityTransitive ==
    \A i, j, k \in {n \in DOMAIN papers : NormAt(n) # <<>>} :
        (Similar(i, j) /\ Similar(j, k)) => Similar(i, k)

\* C18 (as stated): for a symmetric similarity relation over the titles of a
\* batch, find_duplicates on the batch and on the batch in reverse order flag
\* the same number of records.
C18_SameCountWhenReversed ==
    (BothRunsDone /\ SimilaritySymmetric) =>
        NumFlagged(dup_map) = NumFlagged(dup_map_reversed)

\* C18 (amended): for a symmetric similarity relation that is also transitive
\* over the batch's non-empty titles, the two runs flag the same number of
\* records, though not always the same ids.
C18_SameCountWhenTransitive ==
    (BothRunsDone /\ SimilaritySymmetric /\ SimilarityTransitive) =>
        NumFlagged(dup_map) = NumFlagged(dup_map_reversed)

\* two records with the same normalised title: each run flags one record, and
\* not the same one
C18_Witness ==
    /\ BothRunsDone /\ SimilaritySymmetric /\ SimilarityTransitive
    /\ NumFlagged(dup_map) = 1
    /\ NumFlagged(dup_map_reversed) = 1
    /\ \E id \in DOMAIN dup_map : dup_map[id] # None /\ dup_map_reversed[id] = None

\* lower-cased and stripped of surrounding whitespace, from the raw title
Canonical(title) ==
    IF title = None THEN <<>>
    ELSE LET lowered == [i \in DOMAIN title[1] |-> LowerChar(title[1][i])]
             inked == {i \in DOMAIN lowered : lowered[i] # " "}
         IN  IF inked = {} THEN <<>>
             ELSE SubSeq(lowered, MinOfSet(inked),
                         CHOOSE m \in inked : \A n \in inked : n <= m)

\* C19: a record whose normalised title is non-empty and equal to the
\* normalised title of an earlier record is always flagged as a duplicate; in
\* a two-record batch it is mapped to the first record's id.
C19_RepeatedTitleFlagged ==
    DedupDone =>
        \A i \in DOMAIN papers :
            (/\ Canonical(papers[i].title) # <<>>
             /\ \E j \in 1..(i - 1) :
                   Canonical(papers[j].title) = Canonical(papers[i].title)) =>
                /\ dup_map[papers[i].id] # None
                /\ Len(papers) = 2 => dup_map[papers[2].id] = Some(papers[1].id)

\* a title repeated in another case and with trailing whitespace, after an
\* unrelated original was kept in between
C19_Witness ==
    /\ DedupDone
    /\ Len(papers) = 3
    /\ papers[1].title # papers[3].title
    /\ Canonical(papers[1].title) = Canonical(papers[3].title)
    /\ Canonical(papers[1].title) # <<>>
    /\ dup_map[papers[2].id] = None
    /\ Canonical(papers[2].title) # <<>>
    /\ dup_map[papers[3].id] = Some(papers[1].id)

\* the title is missing, empty or only whitespace
Blank(title) ==
    \/ title = None
    \/ \A i \in DOMAIN title[1] : title[1][i] = " "

\* C20: a record whose title is missing, empty or only whitespace is always
\* mapped to None, wherever it sits in the batch and whatever the other
\* titles are, and no other record is ever mapped to it.
C20_BlankTitlesAreOriginals ==
    DedupDone =>
        \A i \in DOMAIN papers :
            Blank(papers[i].title) =>
                /\ dup_map[papers[i].id] = None
                /\ \A id \in DOMAIN dup_map : dup_map[id] # Some(papers[i].id)

\* two whitespace-only titles around a real one, and a later duplicate of the
\* real one
C20_Witness ==
    /\ DedupDone
    /\ Len(papers) = 4
    /\ papers[1].title = Some(<<" ">>)
    /\ papers[3].title = Some(<<" ">>)
    /\ dup_map[papers[1].id] = None
    /\ dup_map[papers[3].id] = None
    /\ dup_map[papers[4].id] = Some(papers[2].id)

\* C30: each non-None value of the result is the id of a record that appears
\* earlier in the input and that itself maps to None: no self-reference, no
\* duplicate-of-a-duplicate chain, and the first record always maps to None.
C30_DuplicatesPointToEarlierOriginals ==
    DedupDone =>
        /\ \A i \in DOMAIN papers :
             dup_map[papers[i].id] # None =>
                /\ dup_map[papers[i].id] # Some(papers[i].id)
                /\ \E j \in 1..(i - 1) :
                     /\ dup_map[papers[i].id] = Some(papers[j].id)
                     /\ dup_map[papers[j].id] = None
        /\ Len(papers) >= 1 => dup_map[papers[1].id] = None

\* a chain of near-equal titles: the second record is flagged against the
\* first, and the third, similar to the second only, is kept as an original
C30_Witness ==
    /\ DedupDone
    /\ Len(papers) = 3
    /\ dup_map[papers[2].id] = Some(papers[1].id)
    /\ Similar(3, 2) /\ ~Similar(3, 1)
    /\ dup_map[papers[3].id] = None

(***************************************************************************)
(* Spec: one request to POST /screen/batch (stage ti_ab) or to             *)
(* POST /fulltext/screen (stage fulltext).                                 *)
(***************************************************************************)
MaxPapers == 2

ScreenTitles ==
    {Some(<<"a", "b", "c", "d">>),
     Some(<<"A", "B", "C", "D", " ">>),
     Some(<<"x", "y", "z">>)}

PaperIds(ps) == {ps[i].id : i \in DOMAIN ps}

Init ==
    /\ pc = "request"
    /\ stage \in {"ti_ab", "fulltext"}
    /\ \E k \in 1..MaxPapers : \E ts \in [1..k -> ScreenTitles] :
         papers = [i \in 1..k |-> [id |-> PaperIdPool[i], title |-> ts[i]]]
    /\ dup_map = <<>>
    /\ dup_map_reversed = <<>>
    /\ outcome = <<>>
    /\ rater_calls = {}
    /\ screen_results = <<>>
    /\ decisions = <<>>
    /\ screening_label = [id \in PaperIds(papers) |-> None]
    /\ response = None
    /\ KappaIdle
    /\ GradeIdle
    /\ PrismaIdle

\* screen_batch up to the await of asyncio.gather: dedup, then one _screen_one
\* coroutine per non-duplicate paper
StartScreenBatch ==
    /\ pc = "request"
    /\ stage = "ti_ab"
    /\ dup_map' = FindDuplicates(papers)
    /\ outcome' = [i \in DOMAIN NonDupPapers(papers, dup_map') |-> None]
    /\ rater_calls' = PaperIds(NonDupPapers(papers, dup_map'))
    /\ pc' = "gathering"
    /\ UNCHANGED <<prismaVars, dup_map_reversed, stage, papers, screen_results, decisions, screening_label,
                   response, kappaVars, gradeVars>>

\* fulltext_screen up to the await of asyncio.gather: one coroutine per paper
StartFulltextScreen ==
    /\ pc = "request"
    /\ stage = "fulltext"
    /\ outcome' = [i \in DOMAIN papers |-> None]
    /\ rater_calls' = PaperIds(papers)
    /\ pc' = "gathering"
    /\ UNCHANGED <<prismaVars, dup_map_reversed, stage, papers, dup_map, screen_results, decisions,
                   screening_label, response, kappaVars, gradeVars>>

\* the two agent calls of the i-th gathered coroutine complete, in any order
\* relative to the other coroutines, each with a label or an exception
RatersComplete(i) ==
    /\ pc = "gathering"
    /\ i \in DOMAIN outcome
    /\ outcome[i] = None
    /\ \E o1 \in RaterOutcomes, o2 \in RaterOutcomes :
         outcome' = [outcome EXCEPT ![i] = Some(<<o1, o2>>)]
    /\ UNCHANGED <<prismaVars, dup_map_reversed, pc, stage, papers, dup_map, rater_calls, screen_results,
                   decisions, screening_label, response, kappaVars, gradeVars>>

\* mutant: after the first failed evaluation every later record of the batch
\* gets the synthetic pair as well
GatheredFailureSpreads(targets, outs) ==
    [i \in DOMAIN outs |->
        IF \E j \in 1..i : ScreenPaper(outs[j][1][1], outs[j][1][2]) = "error"
        THEN [paper_id |-> targets[i].id, a1 |-> "uncertain", a2 |-> "uncertain"]
        ELSE ScreenOne(targets[i].id, outs[i][1][1], outs[i][1][2])]

\* mutant: the second agent's opinions collected in the opposite order
GatheredMisaligned(targets, outs) ==
    [i \in DOMAIN outs |->
        [paper_id |-> targets[i].id,
         a1 |-> ScreenOne(targets[i].id, outs[i][1][1], outs[i][1][2]).a1,
         a2 |-> ScreenOne(targets[Len(outs) + 1 - i].id,
                          outs[Len(outs) + 1 - i][1][1],
                          outs[Len(outs) + 1 - i][1][2]).a2]]

\* what asyncio.gather returns once every coroutine is done, in list order
Gathered(targets, outs) ==
    [i \in DOMAIN outs |-> ScreenOne(targets[i].id, outs[i][1][1], outs[i][1][2])]

\* screen_batch after the gather: kappa, the duplicate rows, the screened rows,
\* the paper labels, commit and response
FinishScreenBatch ==
    /\ pc = "gathering"
    /\ stage = "ti_ab"
    /\ \A i \in DOMAIN outcome : outcome[i] # None
    /\ LET results == Gathered(NonDupPapers(papers, dup_map), outcome)
           l1 == [i \in DOMAIN results |-> results[i].a1]
           l2 == [i \in DOMAIN results |-> results[i].a2]
           rows == DuplicateDecisions(papers, dup_map)
                     \o ScreenedDecisions(results, "ti_ab")
           n_screened == Len(NonDupPapers(papers, dup_map))
       IN  /\ screen_results' = results
           /\ a1_labels' = l1
           /\ a2_labels' = l2
           /\ kappa' = ComputeKappa(l1, l2)
           /\ decisions' = rows
           /\ screening_label' = LabelsAfter(screening_label, rows)
           /\ response' = Some(Response(n_screened, Len(papers) - n_screened, rows,
                                        ComputeKappa(l1, l2)))
    /\ pc' = "responded"
    /\ UNCHANGED <<prismaVars, dup_map_reversed, stage, papers, dup_map, outcome, rater_calls, gradeVars>>

\* fulltext_screen after the gather: kappa, one row per paper, the paper
\* labels, commit and response
FinishFulltextScreen ==
    /\ pc = "gathering"
    /\ stage = "fulltext"
    /\ \A i \in DOMAIN outcome : outcome[i] # None
    /\ LET results == Gathered(papers, outcome)
           l1 == [i \in DOMAIN results |-> results[i].a1]
           l2 == [i \in DOMAIN results |-> results[i].a2]
           rows == ScreenedDecisions(results, "fulltext")
       IN  /\ screen_results' = results
           /\ a1_labels' = l1
           /\ a2_labels' = l2
           /\ kappa' = ComputeKappa(l1, l2)
           /\ decisions' = rows
           /\ screening_label' = LabelsAfter(screening_label, rows)
           /\ response' = Some(Response(Len(papers), 0, rows, ComputeKappa(l1, l2)))
    /\ pc' = "responded"
    /\ UNCHANGED <<prismaVars, dup_map_reversed, stage, papers, dup_map, outcome, rater_calls, gradeVars>>

Next ==
    \/ StartScreenBatch
    \/ StartFulltextScreen
    \/ \E i \in 1..MaxPapers : RatersComplete(i)
    \/ FinishScreenBatch
    \/ FinishFulltextScreen

Spec == Init /\ [][Next]_vars

(***************************************************************************)
(* Claims about the screening endpoints (Spec).                            *)
(***************************************************************************)
Responded == pc = "responded"

\* the rule table of the adjudication policy
RuleTable(l1, l2) ==
    CASE l1 = l2 -> l1
      [] l1 # l2 /\ (l1 = "include" \/ l2 = "include") -> "uncertain"
      [] l1 # l2 /\ {l1, l2} = {"exclude", "uncertain"} -> "exclude"

\* C1: for each of the 9 ordered label pairs resolve_final_label gives the rule
\* table's label (equal labels: that label; an unequal pair with include:
\* uncertain; exclude with uncertain: exclude), at both pipeline stages.
C1_ResolveTruthTable ==
    /\ \A l1 \in VALID_LABELS, l2 \in VALID_LABELS :
         ResolveFinalLabel(l1, l2) = RuleTable(l1, l2)
    /\ \A i \in DOMAIN decisions :
         ~decisions[i].is_duplicate =>
            decisions[i].final_label
              = RuleTable(decisions[i].agent1_label[1], decisions[i].agent2_label[1])

\* a full-text decision for the pair (uncertain, exclude), resolved to exclude
C1_Witness ==
    /\ Responded
    /\ \E i \in DOMAIN decisions :
         /\ decisions[i].stage = "fulltext"
         /\ decisions[i].agent1_label = Some("uncertain")
         /\ decisions[i].agent2_label = Some("exclude")
         /\ decisions[i].final_label = "exclude"

RowsOf(id) == {i \in DOMAIN decisions : decisions[i].paper_id = id}

\* C2: in screen_batch every duplicate-flagged record gets one decision with
\* is_duplicate, duplicate_of = the matched original's id, no rater labels and
\* final_label exclude, and no rater call is issued for it; every other
\* decision has is_duplicate = false and final_label =
\* resolve_final_label(label1, label2).
C2_DuplicatesBypassRaters ==
    (Responded /\ stage = "ti_ab") =>
        /\ \A p \in PaperIds(papers) :
             dup_map[p] # None =>
                /\ p \notin rater_calls
                /\ Cardinality(RowsOf(p)) = 1
                /\ \A i \in RowsOf(p) :
                     /\ decisions[i].is_duplicate
                     /\ decisions[i].duplicate_of_paper_id = dup_map[p]
                     /\ \E j \in DOMAIN papers :
                          /\ decisions[i].duplicate_of_paper_id = Some(papers[j].id)
                          /\ papers[j].id # p
                          /\ dup_map[papers[j].id] = None
                          /\ AtLeastThreshold(JaroWinkler(Normalise(papers[CHOOSE k \in DOMAIN papers : papers[k].id = p].title),
                                                          Normalise(papers[j].title)))
                     /\ decisions[i].agent1_label = None
                     /\ decisions[i].agent2_label = None
                     /\ decisions[i].final_label = "exclude"
        /\ \A p \in PaperIds(papers) :
             dup_map[p] = None =>
                \A i \in RowsOf(p) :
                     /\ ~decisions[i].is_duplicate
                     /\ decisions[i].agent1_label # None
                     /\ decisions[i].agent2_label # None
                     /\ decisions[i].final_label
                          = ResolveFinalLabel(decisions[i].agent1_label[1],
                                              decisions[i].agent2_label[1])

\* a batch of two papers with the same normalised title: the second is flagged
\* a duplicate of the first, the first is rated include by both raters
C2_Witness ==
    /\ Responded /\ stage = "ti_ab"
    /\ Len(papers) = 2
    /\ dup_map[papers[2].id] = Some(papers[1].id)
    /\ \E i \in DOMAIN decisions :
         decisions[i].paper_id = papers[2].id /\ decisions[i].is_duplicate
    /\ \E i \in DOMAIN decisions :
         decisions[i].paper_id = papers[1].id /\ decisions[i].final_label = "include"

\* the raw outcomes of the two rater calls for paper id, None for a paper that
\* was not handed to the raters
RawOutcome(id) ==
    LET ts == Targets(stage, papers, dup_map)
    IN  IF \E i \in DOMAIN ts : ts[i].id = id
        THEN outcome[CHOOSE i \in DOMAIN ts : ts[i].id = id]
        ELSE None

\* C3: at both endpoints a paper ends as include (in its persisted decision and
\* in Paper.screening_label) only if it is not duplicate-flagged, its rater
\* evaluation did not fail and both raters returned include; a disagreement
\* involving include ends as uncertain.
C3_IncludeOnlyWhenBothInclude ==
    Responded =>
        \A p \in PaperIds(papers) :
            /\ ((\E i \in RowsOf(p) : decisions[i].final_label = "include")
                  \/ screening_label[p] = Some("include"))
                 => /\ (stage = "ti_ab" => dup_map[p] = None)
                    /\ RawOutcome(p) = Some(<<"include", "include">>)
            /\ (/\ RawOutcome(p) # None
                /\ "include" \in {RawOutcome(p)[1][1], RawOutcome(p)[1][2]}
                /\ RawOutcome(p)[1][1] # RawOutcome(p)[1][2])
                 => /\ \A i \in RowsOf(p) : decisions[i].final_label = "uncertain"
                    /\ screening_label[p] = Some("uncertain")

\* one rater returned include and the other call failed: the paper ends uncertain
C3_Witness ==
    /\ Responded
    /\ \E p \in PaperIds(papers) :
         /\ RawOutcome(p) = Some(<<"include", "error">>)
         /\ screening_label[p] = Some("uncertain")

\* the evaluation of paper id failed: at least one of its two rater calls raised
Failed(id) ==
    /\ RawOutcome(id) # None
    /\ "error" \in {RawOutcome(id)[1][1], RawOutcome(id)[1][2]}

\* C16: when the rater evaluation of a record fails during screen_batch or
\* fulltext_screen, that record gets the pair (uncertain, uncertain) and the
\* final label uncertain; the batch still completes, with one decision per
\* record; every other record's decision is what its own two labels give,
\* whether or not another record failed.
C16_FailureIsolatedPerRecord ==
    Responded =>
        /\ Len(decisions) = Len(papers)
        /\ response[1].n_decisions = Len(papers)
        /\ \A p \in PaperIds(papers) :
             /\ Cardinality(RowsOf(p)) = 1
             /\ Failed(p) =>
                  \A i \in RowsOf(p) :
                     /\ decisions[i].agent1_label = Some("uncertain")
                     /\ decisions[i].agent2_label = Some("uncertain")
                     /\ decisions[i].final_label = "uncertain"
             /\ (RawOutcome(p) # None /\ ~Failed(p)) =>
                  \A i \in RowsOf(p) :
                     /\ decisions[i].agent1_label = Some(RawOutcome(p)[1][1])
                     /\ decisions[i].agent2_label = Some(RawOutcome(p)[1][2])
                     /\ decisions[i].final_label
                          = RuleTable(RawOutcome(p)[1][1], RawOutcome(p)[1][2])

\* the first record's evaluation failed and the second record, rated include
\* by both raters, is included
C16_Witness ==
    /\ Responded
    /\ Len(papers) = 2
    /\ Failed(papers[1].id)
    /\ RawOutcome(papers[2].id) = Some(<<"include", "include">>)
    /\ \E i \in RowsOf(papers[1].id) : decisions[i].final_label = "uncertain"
    /\ \E i \in RowsOf(papers[2].id) : decisions[i].final_label = "include"

\* C17: when exactly one of a record's two rater calls fails, uncertain is
\* substituted for that rater only: the other rater's label is persisted
\* unchanged and the final label is resolve_final_label(uncertain, other
\* label), so a surviving exclude gives exclude.
C17_SurvivingLabelKept ==
    Responded =>
        \A p \in PaperIds(papers) :
            (/\ RawOutcome(p) # None
             /\ Cardinality({k \in 1..2 : RawOutcome(p)[1][k] = "error"}) = 1) =>
                LET k == CHOOSE k \in 1..2 : RawOutcome(p)[1][k] # "error"
                    other == RawOutcome(p)[1][k]
                IN  \A i \in RowsOf(p) :
                       /\ (IF k = 1 THEN decisions[i].agent1_label
                                    ELSE decisions[i].agent2_label) = Some(other)
                       /\ decisions[i].final_label = RuleTable("uncertain", other)

\* C24: in every batch response included + excluded + uncertain = number of
\* decisions returned; for fulltext_screen this equals screened, and for
\* screen_batch it equals screened + duplicates_removed = number of papers
\* fetched, each duplicate being counted under excluded and each paper getting
\* exactly one decision.
C24_TalliesAddUp ==
    Responded =>
        LET r == response[1]
            dup_rows == {i \in DOMAIN decisions : decisions[i].is_duplicate}
            excluded_rows == {i \in DOMAIN decisions : decisions[i].final_label = "exclude"}
        IN  /\ r.included + r.excluded + r.uncertain = r.n_decisions
            /\ r.n_decisions = Len(decisions)
            /\ \A p \in PaperIds(papers) : Cardinality(RowsOf(p)) = 1
            /\ stage = "fulltext" =>
                  /\ r.n_decisions = r.screened
                  /\ r.duplicates_removed = 0
            /\ stage = "ti_ab" =>
                  /\ r.n_decisions = r.screened + r.duplicates_removed
                  /\ r.screened + r.duplicates_removed = Len(papers)
                  /\ r.duplicates_removed = Cardinality(dup_rows)
                  /\ dup_rows \subseteq excluded_rows
                  /\ r.excluded = Cardinality(excluded_rows)

\* a screen_batch response with one duplicate removed and one paper included
C24_Witness ==
    /\ Responded /\ stage = "ti_ab"
    /\ response[1].duplicates_removed = 1
    /\ response[1].screened = 1
    /\ response[1].included = 1
    /\ response[1].excluded = 1

\* C29: the rater calls of a batch complete in any order, and until every
\* record's evaluation has returned or failed no label is adjudicated, no
\* decision is persisted and kappa is not computed; the decisions, the label
\* lists and kappa are then produced in one step, kappa over the complete set
\* of pairs, position i of both label lists belonging to the i-th record.
C29_FanInBeforeAdjudication ==
    /\ [](pc = "gathering" =>
            /\ decisions = <<>>
            /\ screen_results = <<>>
            /\ a1_labels = <<>> /\ a2_labels = <<>>
            /\ kappa = None
            /\ response = None
            /\ \A p \in PaperIds(papers) : screening_label[p] = None)
    /\ [](Responded =>
            LET ts == Targets(stage, papers, dup_map)
            IN  /\ \A i \in DOMAIN outcome : outcome[i] # None
                /\ Len(a1_labels) = Len(ts) /\ Len(a2_labels) = Len(ts)
                /\ \A i \in DOMAIN ts :
                     /\ screen_results[i].paper_id = ts[i].id
                     /\ a1_labels[i] = (IF Failed(ts[i].id) THEN "uncertain"
                                         ELSE outcome[i][1][1])
                     /\ a2_labels[i] = (IF Failed(ts[i].id) THEN "uncertain"
                                         ELSE outcome[i][1][2])
                /\ kappa = ComputeKappa(a1_labels, a2_labels)
                /\ response[1].cohen_kappa = kappa)
    /\ [][(decisions' # decisions \/ a1_labels' # a1_labels \/ a2_labels' # a2_labels
             \/ kappa' # kappa \/ screening_label' # screening_label)
           => (/\ pc = "gathering" /\ pc' = "responded"
               /\ \A i \in DOMAIN outcome : outcome[i] # None)]_vars

\* the second record's raters have answered while the first record's are
\* still pending, and nothing has been adjudicated
C29_Witness ==
    /\ pc = "gathering"
    /\ Len(outcome) = 2
    /\ outcome[1] = None
    /\ outcome[2] # None
    /\ decisions = <<>>

====
